---- MODULE Spec2Model ----
(***************************************************************************)
(* The host side of the http-wasm handler ABI as implemented for express   *)
(* (packages/express/index.ts): the middleware factory, the request        *)
(* handler that drives the guest through handle_request / next /           *)
(* handle_response, the host functions the guest imports, and the          *)
(* ResponseBuffer that interposes on the response.                         *)
(*                                                                         *)
(* JavaScript runs one task at a time: `running` names the request whose   *)
(* synchronous code is on the stack (0 when the event loop is idle), and   *)
(* a task gives the thread back only where the code awaits or returns.     *)
(***************************************************************************)
EXTENDS Integers, Sequences, FiniteSets, TLC

\* ------------------------------------------------------------------ bounds
NumReq == 2          \* requests that may be in flight on the one middleware
MaxBody == 2         \* longest request body sent by a client
MemSize == 10        \* bytes of guest linear memory
MaxCalls == 4        \* host-function calls the guest makes in a run of one request
ConcCalls == 2       \* host-function calls the guest makes in a run of several requests
MaxInitCalls == 2    \* enable_features calls the guest makes while it initializes
MaxDownWrites == 2   \* chunks the downstream handler writes per request
MaxTrailers == 1     \* trailers the downstream handler adds per request

\* ------------------------------------------------------- program constants
BUFFER_REQUEST == 1
BUFFER_RESPONSE == 2
REQUEST == 0
RESPONSE == 1
REQUEST_TRAILERS == 2
RESPONSE_TRAILERS == 3
DEBUG == -1
INFO == 0
WARN == 1
ERROR == 2
NONE == 3

Requests == 1..NumReq
BodyKind == {REQUEST, RESPONSE}
HeaderKind == {REQUEST, RESPONSE, REQUEST_TRAILERS, RESPONSE_TRAILERS}
\* The kind arguments a guest may pass: an i32, the values of the enum or a
\* value that is none of them, with one value to stand for these.
KindArgs(enum) == enum \cup {Cardinality(HeaderKind)}
UnknownKinds == KindArgs({})
FeatureMasks == 0..(BUFFER_REQUEST + BUFFER_RESPONSE)
Undefined == -1
\* The addresses the guest passes: the start of its memory and its last byte.
Offsets == {0, MemSize - 1}
Limits == 0..MaxBody
\* Values handle_request returns: the low bit is the proceed bit.
CtxNextValues == 0..3

Min(a, b) == IF a < b THEN a ELSE b

RECURSIVE BitAnd(_, _)
BitAnd(a, b) ==
  IF a = 0 \/ b = 0 THEN 0
  ELSE (a % 2) * (b % 2) + 2 * BitAnd(a \div 2, b \div 2)

BitOr(a, b) == a + b - BitAnd(a, b)

\* Features.has
Has(features, feature) == BitAnd(features, feature) = feature

\* A client's request body of n bytes: the bytes 1..n, so that every position
\* of the body is told apart.
BodyOf(n) == [i \in 1..n |-> i]
RequestBodies == {BodyOf(n) : n \in 0..MaxBody}

\* The guest's data segment: the bytes of linear memory after instantiation,
\* the letters "Hhi", the two bytes of "\u00e9" in UTF-8 and the letters
\* "lmnop", from which the guest takes header names and values, URIs and log
\* messages.
InitialMemory ==
  [a \in 0..(MemSize - 1) |->
     CASE a = 0 -> 72
       [] a = 3 -> 195
       [] a = 4 -> 169
       [] OTHER -> 103 + a]

\* Where the guest keeps the header names it passes ("H" and "i"), the lengths
\* it passes for names and values, and the buffers it passes for results.
NameOffsets == {0, 2}
NameLens == {0, 1}
BufOffsets == {1, MemSize - 1}
BufLimits == {0, 1, 3, 4, MemSize - 2}

\* Where the guest keeps the URIs it passes to set_uri, and their lengths:
\* "i", "\u00e9", either half of it, and the last byte of memory.
UriOffsets == {2, 3, 4, MemSize - 1}
UriLens == {0, 1, 2}

\* The levels the guest passes to log and log_enabled: those of LogLevel and
\* one that is none of them; and where it keeps its messages ("\u00e9" and
\* the last byte of memory) and their lengths.
LogLevels == {DEBUG, INFO, WARN, ERROR, NONE, NONE + 1}
LogOffsets == {3, MemSize - 1}
LogLens == {0, 1, 2}

\* The UTF-8 encoding of a code point below 2^16.
Utf8Of(cp) ==
  IF cp < 128 THEN <<cp>>
  ELSE IF cp < 2048 THEN <<192 + (cp \div 64), 128 + (cp % 64)>>
  ELSE <<224 + (cp \div 4096), 128 + ((cp \div 64) % 64), 128 + (cp % 64)>>

\* Buffer.from(v) for a string v (a sequence of code points): its UTF-8
\* encoding.
RECURSIVE BufferFrom(_)
BufferFrom(v) == IF v = <<>> THEN <<>> ELSE Utf8Of(Head(v)) \o BufferFrom(Tail(v))

\* As BufferToString, but taking every byte for a code point (latin1).
BufferToLatin1(b) == b

\* Buffer.prototype.toString(): UTF-8 decoding of bytes below 224 (sequences
\* of one and two bytes). A byte that begins no well-formed sequence becomes
\* U+FFFD.
RECURSIVE BufferToString(_)
BufferToString(b) ==
  IF b = <<>> THEN <<>>
  ELSE IF b[1] < 128 THEN <<b[1]>> \o BufferToString(Tail(b))
  ELSE IF b[1] >= 194 /\ b[1] <= 223 /\ Len(b) >= 2 /\ b[2] >= 128 /\ b[2] <= 191
    THEN <<(b[1] - 192) * 64 + (b[2] - 128)>> \o BufferToString(SubSeq(b, 3, Len(b)))
  ELSE <<65533>> \o BufferToString(Tail(b))

\* String.prototype.toLowerCase on the bytes of an ASCII string
ToLowerCase(str) ==
  [i \in 1..Len(str) |-> IF str[i] >= 65 /\ str[i] <= 90 THEN str[i] + 32 ELSE str[i]]

\* A dictionary of headers is the sequence of its entries in insertion order
\* (the order of Object.keys); an entry holds a string (array FALSE, one
\* value) or an array of strings.
HeaderEntry(name, array, values) == [name |-> name, array |-> array, values |-> values]

\* req.headers of a client's request: "h: v" and "i:" (an empty value)
RequestHeaders ==
  <<HeaderEntry(<<104>>, FALSE, << <<118>> >>), HeaderEntry(<<105>>, FALSE, << <<>> >>)>>

\* The names under which a downstream handler adds its trailers: "t", or "I"
\* for one that writes a capital letter in the name
TrailerName == <<116>>
CapitalTrailerName == <<73>>

\* req.method, req.url and req.httpVersion of a client's request: "GET", "/"
\* and "1.1"
RequestMethod == <<71, 69, 84>>
RequestUrl == <<47>>
RequestHttpVersion == <<49, 46, 49>>

\* options.config is not given: HttpHandler.config is the empty buffer.
Config == <<>>

\* A 32-bit word as its high and low 16 bits.
ZeroWord == <<0, 0>>

\* The context words a guest returns in the high 32 bits of handle_request's
\* result: zero, one, the largest positive i32, bit 31 alone, all ones and a
\* mixed pattern.
CtxWords ==
  {ZeroWord, <<0, 1>>, <<32767, 65535>>, <<32768, 0>>, <<65535, 65535>>,
   <<43981, 4660>>}

\* The chunk the downstream handler writes as its (k+1)-th write.
DownChunk(k) == <<20 + k>>

VARIABLES
  load,           \* the run's workload: the guest module, the requests, the downstream handler
  phase,          \* the factory: "instantiated", "init" while the guest's entry point runs,
                  \* then "serving" (the request handler was returned) or "failed"
  started,        \* the entry points of the guest the factory has invoked, in order
  console,        \* the lines written to the console, each with the method that wrote it
  mwFeatures,     \* MiddlewareState._features
  memory,         \* the first MemSize bytes of the guest's linear memory
  detached,       \* HttpHandler.memory views a buffer the guest's memory has left
  stateStorage,   \* stateStorage.getStore(): the request whose RequestState is bound, 0 = none
  running,        \* the request whose synchronous code holds the thread, 0 = none
  calls,          \* host-function calls made so far
  pc,             \* per request: the position of its handler
  request,        \* per request: req (the raw stream and req.body)
  response,       \* per request: res (what reached the wire, and the ResponseBuffer)
  state,          \* per request: RequestState
  down,           \* per request: the downstream handler
  hist            \* per request: what the guest and the client have observed

vars == <<phase, mwFeatures, memory, stateStorage, running, calls, pc, request,
          response, state, down, hist, load, started, console, detached>>

\* ------------------------------------------------------------ constructors
\* new RequestState(req, res)
NewRequestState ==
  [nextCalled |-> FALSE, features |-> Undefined,
   requestBodyReadIndex |-> 0, responseBodyReadIndex |-> 0,
   requestBodyReplaced |-> FALSE, responseBodyReplaced |-> FALSE]

\* What has been observed of a request, kept beside the program's state:
\*   lowBit       the low bit of the value handle_request returned
\*   nextInvoked  next() was called;  respInvoked  handle_response was called
\*   hostEnd      the handler itself called res.end()
\*   read, eof    per body kind, the chunks read_body returned, concatenated,
\*                and the end-of-stream bit of its last result
\*   replaced     per body kind, a write_body replaced the body
\*   written      per body kind, a write_body was made in the current phase
\*   wrote        the payloads of write_body(RESPONSE) before next, concatenated
\*   seen         the request body as the downstream handler found it
\*   ctxNext      the handler's local ctxNext after the proceed test: the high
\*                word and the low bit of the value handle_request returned
\*   ctx          the 32-bit word handle_response received as its first
\*                argument
\*   raised       the downstream handler threw inside next()
\*   isError      the value handle_response received as its second argument
\*   trap         why a header function or a function returning a value threw
\*   uriSet       a set_uri of the guest returned;  setUri  the bytes the guest
\*                passed to the last one
\*   seenUrl      req.url as the downstream handler found it
\*   logEnabled   the value the guest's last log_enabled returned
\*   rt...        the progress of a guest that writes back every chunk of the
\*                request body it reads; roundTrip: it had read to the end of
\*                the stream and written every chunk back when it proceeded
NewHist ==
  [lowBit |-> Undefined, nextInvoked |-> FALSE, respInvoked |-> FALSE,
   hostEnd |-> FALSE,
   read |-> [k \in BodyKind |-> <<>>], eof |-> [k \in BodyKind |-> FALSE],
   replaced |-> [k \in BodyKind |-> FALSE],
   written |-> [k \in BodyKind |-> FALSE],
   wrote |-> <<>>, seen |-> <<>>,
   ctxNext |-> Undefined, ctx |-> Undefined,
   raised |-> FALSE, isError |-> Undefined, trap |-> "",
   uriSet |-> FALSE, setUri |-> <<>>, seenUrl |-> <<>>, logEnabled |-> Undefined,
   rt |-> "ok", rtBuf |-> 0, rtLen |-> 0, rtEof |-> FALSE, roundTrip |-> FALSE]

\* RequestState.features (getter)
RequestFeatures(r) ==
  IF state[r].features # Undefined THEN state[r].features ELSE mwFeatures

\* ------------------------------------------------------------- the response
\* As Release, but without the write of the buffered body.
ReleaseWithoutBody(res) ==
  [res EXCEPT !.wire = @ \o << <<"addTrailers", res.trailers>>, <<"end", <<>> >> >>,
              !.cbCalls = IF res.cb THEN @ + 1 ELSE @]

\* ResponseBuffer.release: the original end receives the stored callback and
\* calls it once the response is finished. The callback a new ResponseBuffer
\* holds does nothing and is not counted.
Release(res) ==
  [res EXCEPT !.wire = @ \o << <<"write", res.body>>,
                               <<"addTrailers", res.trailers>>,
                               <<"end", <<>> >> >>,
              !.cbCalls = IF res.cb THEN @ + 1 ELSE @]

\* As ResWrite, but with an interposed write that also passes the chunk on to
\* the original write.
ResWriteThrough(res, chunk) ==
  [res EXCEPT !.body = IF res.buffered THEN @ \o chunk ELSE @,
              !.wire = Append(@, <<"write", chunk>>)]

\* res.write: the interposed write of bufferResponse, or the original one
ResWrite(res, chunk) ==
  IF res.buffered THEN [res EXCEPT !.body = @ \o chunk]
  ELSE [res EXCEPT !.wire = Append(@, <<"write", chunk>>)]

\* res.addTrailers
ResAddTrailers(res, value) ==
  IF res.buffered THEN [res EXCEPT !.trailers = Append(@, value)]
  ELSE [res EXCEPT !.wire = Append(@, <<"addTrailers", <<value>> >>)]

\* The forms of a call of res.end: what is passed as data ("none": nothing,
\* "empty": the empty string, "chunk": a chunk of bytes) and the position of
\* the callback (0: no callback, 1: end(cb), 2: end(data, cb),
\* 3: end(data, encoding, cb)).
EndData == {"none", "empty", "chunk"}
CallbackPositions == 0..3

EndForm(data, cbPos) ==
  CASE cbPos = 0 -> data \in {"none", "chunk"}
    [] cbPos = 1 -> data = "none"
    [] OTHER -> data \in {"empty", "chunk"}

\* The interposed end, lines 678-694: it returns at once when its first
\* argument is falsy (nothing, or the empty string); otherwise it stores the
\* callback it finds in any of the three positions.
EndStoresCallback(data, cbPos) ==
  /\ cbPos # 0
  /\ cbPos = 1 \/ data = "chunk"

\* res.end in one of its forms: the interposed end of bufferResponse, or the
\* original one, which calls the callback once the response is finished.
ResEndCall(res, data, bytes, cbPos) ==
  IF res.buffered
  THEN [res EXCEPT !.body = IF data = "chunk" THEN @ \o bytes ELSE @,
                   !.cb = IF EndStoresCallback(data, cbPos) THEN TRUE ELSE @]
  ELSE [res EXCEPT !.wire = Append(@, <<"end", bytes>>),
                   !.cbCalls = IF cbPos # 0 THEN @ + 1 ELSE @]

\* res.end([data])
ResEnd(res, data) ==
  ResEndCall(res, IF data = <<>> THEN "none" ELSE "chunk", data, 0)

\* The body the original sendStatus sends for a status code: its status text.
StatusCodes == {404, 500}
StatusBody(status) == <<status>>

\* The original res.sendStatus: sets the status code, sends the status text
\* and ends the response.
OrigSendStatus(res, status) ==
  [res EXCEPT !.statusCode = status, !.wire = Append(@, <<"end", StatusBody(status)>>)]

\* As ResSendStatus, but without the interposed sendStatus.
ResSendStatusNotInterposed(res, status) == OrigSendStatus(res, status)

\* res.sendStatus: the interposed sendStatus of bufferResponse, lines 629-632,
\* or the original one
ResSendStatus(res, status) ==
  IF res.buffered THEN [res EXCEPT !.statusCode = status]
  ELSE OrigSendStatus(res, status)

\* bufferResponse(res): new ResponseBuffer(res) and the interposed operations
BufferResponse(res) ==
  [res EXCEPT !.buffered = TRUE, !.body = <<>>, !.trailers = <<>>]

\* The bytes the client receives: the payloads written to the wire up to and
\* including the first end.
RECURSIVE DeliveredOf(_)
DeliveredOf(w) ==
  IF w = <<>> THEN <<>>
  ELSE IF Head(w)[1] = "end" THEN Head(w)[2]
  ELSE IF Head(w)[1] = "write" THEN Head(w)[2] \o DeliveredOf(Tail(w))
  ELSE DeliveredOf(Tail(w))

Delivered(r) == DeliveredOf(response[r].wire)

RECURSIVE Ended(_)
Ended(w) == w # <<>> /\ (Head(w)[1] = "end" \/ Ended(Tail(w)))

\* ------------------------------------------------------------------- Init
\* What a guest module may export, and the exports of a WASI command that
\* implements the handler ABI.
ExportNames == {"memory", "handle_request", "handle_response", "_start", "_initialize"}
CommandExports == {"memory", "handle_request", "handle_response", "_start"}

\* A run's workload: the requests the clients send and the longest body they
\* carry, the chunks the downstream handler writes and whether it may throw,
\* and the guest module: the
\* host functions its handle_request and handle_response call, the body kinds
\* they pass, the number of calls they make and the context words (the high
\* 32 bits) handle_request returns, its exports and whether its entry point
\* traps. Every guest may call enable_features while it initializes.
Load(n, body, writes, c, uses, kinds, ctxs, raises) ==
  [requests |-> n, body |-> body, writes |-> writes, calls |-> c, uses |-> uses,
   kinds |-> kinds, ctxs |-> ctxs, raises |-> raises,
   exports |-> CommandExports, initTraps |-> FALSE,
   ends |-> {0}, statuses |-> {}, trailerName |-> TrailerName]

\* A guest that streams the request body.
RequestStreamer ==
  Load(1, MaxBody, 0, MaxCalls, {"read_body", "write_body"}, {REQUEST},
       {ZeroWord}, FALSE)

\* A guest that reads and rewrites the response body.
ResponseRewriter ==
  Load(1, 0, MaxDownWrites, MaxCalls - 1, {"read_body", "write_body"}, {RESPONSE},
       {ZeroWord}, FALSE)

\* A guest that negotiates features while it handles its requests.
Negotiator ==
  Load(NumReq, 0, 0, MaxCalls - 2, {"enable_features"}, {}, {ZeroWord}, FALSE)

\* Several requests in flight on one guest.
Concurrent ==
  Load(NumReq, 1, 1, ConcCalls, {"read_body"}, {REQUEST}, {ZeroWord}, FALSE)

\* A guest that calls no host function and hands a context to handle_response.
Forwarder == Load(1, 0, 1, 0, {}, {}, CtxWords, TRUE)

\* A guest that reads and sets headers, before a downstream handler that adds
\* its trailers under a name with a capital letter.
HeaderEditor ==
  [Load(1, 0, 0, MaxCalls - 2,
        {"get_header_names", "get_header_values", "set_header_value"}, {},
        {ZeroWord}, FALSE)
     EXCEPT !.trailerName = CapitalTrailerName]

\* A guest that rewrites the URI.
Router == Load(1, 0, 0, MaxCalls - 2, {"set_uri", "get_uri"}, {}, {ZeroWord}, FALSE)

\* A guest that logs.
Logger == Load(1, 0, 0, MaxCalls - 2, {"log", "log_enabled"}, {}, {ZeroWord}, FALSE)

\* A guest that asks for the configuration and the request line.
Inspector ==
  Load(1, 0, 0, MaxCalls - 2,
       {"get_config", "get_method", "get_protocol_version", "get_uri"}, {},
       {ZeroWord}, FALSE)

\* A guest that calls no host function, before a downstream handler that sets
\* the status with sendStatus and ends the response with a callback.
Finisher ==
  [Load(1, 0, 1, 0, {}, {}, {ZeroWord}, FALSE)
     EXCEPT !.ends = CallbackPositions, !.statuses = StatusCodes]

\* A guest that passes a kind outside the enums to every host function that
\* takes one.
Prober ==
  Load(1, 0, 0, MaxCalls - 2,
       {"get_header_names", "get_header_values", "set_header_value",
        "read_body", "write_body"}, UnknownKinds, {ZeroWord}, FALSE)

\* A guest that grows its memory and then passes and receives response
\* bodies.
Grower ==
  Load(1, 0, 1, MaxCalls - 2, {"memory.grow", "read_body", "write_body"}, {RESPONSE},
       {ZeroWord}, FALSE)

\* A guest with the exports e that calls no host function once it serves; its
\* entry point, if it has one, traps when t.
Exporting(e, t) ==
  [Load(1, 0, 0, 0, {}, {}, {ZeroWord}, FALSE) EXCEPT !.exports = e, !.initTraps = t]

\* Guests with any set of exports.
Incomplete ==
  UNION {{Exporting(e, t) : t \in {b \in BOOLEAN : b => e \cap {"_start", "_initialize"} # {}}} :
         e \in SUBSET ExportNames}

Loads ==
  {RequestStreamer, ResponseRewriter, Negotiator, Concurrent, Forwarder,
   HeaderEditor, Inspector, Router, Logger, Finisher, Prober, Grower} \cup Incomplete

Init ==
  /\ load \in Loads
  /\ phase = "instantiated"
  /\ started = <<>>
  /\ console = <<>>
  /\ mwFeatures = 0
  /\ memory = InitialMemory
  /\ detached = FALSE
  /\ stateStorage = 0
  /\ running = 0
  /\ calls = 0
  /\ pc = [r \in Requests |-> "new"]
  /\ request \in [Requests -> {[raw |-> b, body |-> <<>>, defined |-> FALSE,
                                headers |-> RequestHeaders, trailers |-> <<>>,
                                method |-> RequestMethod, url |-> RequestUrl,
                                httpVersion |-> RequestHttpVersion] :
                               b \in RequestBodies}]
  /\ \A r \in Requests :
       Len(request[r].raw) <= (IF r <= load.requests THEN load.body ELSE 0)
  /\ response = [r \in Requests |->
                   [wire |-> <<>>, buffered |-> FALSE, body |-> <<>>, trailers |-> <<>>,
                    headers |-> <<>>, statusCode |-> 200, cb |-> FALSE, cbCalls |-> 0]]
  /\ state = [r \in Requests |-> NewRequestState]
  /\ down = [r \in Requests |-> [status |-> "idle", writes |-> 0, trailers |-> 0,
                                  cb |-> FALSE, sent |-> 0]]
  /\ hist = [r \in Requests |-> NewHist]

\* ------------------------------------------------------------ guest memory
\* HttpHandler.memory is the Uint8Array setMemory made, once, of the buffer
\* the guest's memory had when it was instantiated. memory.grow gives the
\* guest's memory a new buffer and detaches the old one: the length of a view
\* on a detached buffer is 0.
MemoryLength == IF detached THEN 0 ELSE MemSize

\* Uint8Array.prototype.set(slice, buf) raises RangeError when the slice does
\* not fit, and TypeError on a detached buffer.
MemFits(buf, slice) == ~detached /\ buf + Len(slice) <= MemSize

MemSet(mem, slice, buf) ==
  [a \in DOMAIN mem |->
     IF a >= buf /\ a < buf + Len(slice) THEN slice[a - buf + 1] ELSE mem[a]]

\* HttpHandler.mustRead: the guard that raises 'out of memory reading ...'
MustReadTraps(offset, byteCount) ==
  byteCount # 0 /\ (offset >= MemoryLength \/ offset + byteCount >= MemoryLength)

\* HttpHandler.mustRead: the bytes read
MustRead(mem, offset, byteCount) ==
  [i \in 1..byteCount |-> mem[offset + i - 1]]

\* HttpHandler.mustReadString: the bytes read, decoded
MustReadString(mem, offset, byteCount) == BufferToString(MustRead(mem, offset, byteCount))

\* ---------------------------------------------------------- who is running
\* The handler of request r is at a call of a guest export.
AtExport(r) == running = r /\ pc[r] \in {"handle_request", "handle_response"}

\* A guest export of request r is executing.
InGuest(r) == AtExport(r) /\ pc[r] \in load.exports

\* An exception thrown by a host function or by the guest unwinds
\* stateStorage.run and rejects the handler's promise.
Trap(r) ==
  /\ pc' = [pc EXCEPT ![r] = "trapped"]
  /\ running' = 0
  /\ stateStorage' = 0

\* A host function throws: the guest traps, and why.
TrapBecause(r, why) ==
  /\ Trap(r)
  /\ hist' = [hist EXCEPT ![r].trap = why]

\* The guest of request r executes memory.grow. Its memory keeps its bytes in
\* a new buffer; the view the host made at line 584 stays on the old one.
GrowMemory(r) ==
  /\ "memory.grow" \in load.uses
  /\ InGuest(r)
  /\ ~detached
  /\ detached' = TRUE
  /\ UNCHANGED <<load, started, console, phase, mwFeatures, memory, stateStorage,
                 running, calls, pc, request, response, state, down, hist>>

\* Lines 586-589 take handle_request and handle_response from the exports
\* unchecked: calling one the guest does not export throws a TypeError
\* (undefined is not a function) at line 607 or 615.
CallMissingExport(r) ==
  /\ AtExport(r)
  /\ pc[r] \notin load.exports
  /\ TrapBecause(r, "export")
  /\ UNCHANGED <<load, started, console, detached, phase, mwFeatures, memory, calls, request, response,
                 state, down>>

\* ------------------------------------------------------------- the factory
\* HttpHandler.enableFeatures: the mask it stores
EnableFeaturesMask(old, features) == features

\* HttpHandler.enableFeatures: the value it returns
EnableFeaturesReturn(old, features) == features

\* The mask enable_features acts on: the request's when a RequestState is
\* bound, else the middleware's.
CurrentMask == IF stateStorage # 0 THEN RequestFeatures(stateStorage) ELSE mwFeatures

\* As FeaturesScope, but for an enableFeatures that always stores into the
\* middleware's state.
FeaturesScopeMiddleware(s) == 0

\* HttpHandler.enableFeatures: stateStorage.getStore() decides where the mask
\* is stored, in the bound RequestState or (0) in the MiddlewareState.
FeaturesScope(s) == s

\* enable_features called by the guest's _start / _initialize or by an export
EnableFeatures(r, features) ==
  /\ calls < (IF r = 0 THEN MaxInitCalls ELSE load.calls)
  /\ r # 0 => "enable_features" \in load.uses
  /\ \/ r = 0 /\ phase = "init"
     \/ r # 0 /\ InGuest(r)
  /\ LET mask == EnableFeaturesMask(CurrentMask, features) IN
       /\ IF FeaturesScope(stateStorage) # 0
            THEN /\ state' = [state EXCEPT ![stateStorage].features = mask]
                 /\ UNCHANGED mwFeatures
            ELSE /\ mwFeatures' = mask
                 /\ UNCHANGED state
  /\ calls' = calls + 1
  /\ UNCHANGED <<load, started, console, detached, phase, memory, stateStorage, running, pc, request, response,
                 down, hist>>

\* As EntryPoint, but for a factory that knows of _start only.
EntryPointStartOnly(exports) == IF "_start" \in exports THEN "_start" ELSE "none"

\* Lines 591-595: wasi.start(instance) invokes _start, and wasi.initialize
\* (instance) invokes _initialize when the guest exports it.
EntryPoint(exports) ==
  IF "_start" \in exports THEN "_start"
  ELSE IF "_initialize" \in exports THEN "_initialize"
  ELSE "none"

\* wasi.start(instance) throws when the guest exports _initialize as well.
WasiRejects(exports) == {"_start", "_initialize"} \subseteq exports

\* setMemory(instance.exports['memory']) throws a TypeError when the guest
\* exports no memory: new Uint8Array(undefined.buffer).
SetMemoryThrows(exports) == "memory" \notin exports

\* Lines 584-595, after the guest was instantiated: the factory takes the
\* guest's memory and exports and invokes its entry point. An exception
\* rejects the factory's promise.
StartGuest ==
  /\ phase = "instantiated"
  /\ IF SetMemoryThrows(load.exports) \/ WasiRejects(load.exports)
       THEN phase' = "failed" /\ UNCHANGED started
     ELSE IF EntryPoint(load.exports) = "none"
       THEN phase' = "serving" /\ UNCHANGED started
     ELSE /\ phase' = "init"
          /\ started' = Append(started, EntryPoint(load.exports))
  /\ UNCHANGED <<load, console, detached, mwFeatures, memory, stateStorage, running, calls, pc,
                 request, response, state, down, hist>>

\* The guest's entry point traps: wasi.start / wasi.initialize throws and the
\* factory's promise is rejected.
InitTrap ==
  /\ phase = "init"
  /\ load.initTraps
  /\ phase' = "failed"
  /\ UNCHANGED <<load, started, console, detached, mwFeatures, memory, stateStorage, running, calls,
                 pc, request, response, state, down, hist>>

\* The factory returns the request handler once _start / _initialize returned.
FactoryReturn ==
  /\ phase = "init"
  /\ ~load.initTraps
  /\ phase' = "serving"
  /\ calls' = 0
  /\ UNCHANGED <<load, started, console, detached, mwFeatures, memory, stateStorage, running, pc, request,
                 response, state, down, hist>>

\* -------------------------------------------------------- the request handler
\* Lines 602-607: attach the buffer, create the RequestState, bind it and call
\* handle_request.
EnterGuest(r, req) ==
  /\ request' = [request EXCEPT ![r] = req]
  /\ response' = [response EXCEPT ![r] =
                    IF Has(mwFeatures, BUFFER_RESPONSE) THEN BufferResponse(@) ELSE @]
  /\ state' = [state EXCEPT ![r] = NewRequestState]
  /\ stateStorage' = r
  /\ running' = r
  /\ pc' = [pc EXCEPT ![r] = "handle_request"]

\* The handler is invoked for a request; with BUFFER_REQUEST it awaits
\* getRawBody(req) first.
Handler(r) ==
  /\ phase = "serving"
  /\ running = 0
  /\ r <= load.requests
  /\ pc[r] = "new"
  /\ IF Has(mwFeatures, BUFFER_REQUEST)
       THEN /\ pc' = [pc EXCEPT ![r] = "getRawBody"]
            /\ UNCHANGED <<request, response, state, stateStorage, running>>
       ELSE EnterGuest(r, request[r])
  /\ UNCHANGED <<load, started, console, detached, phase, mwFeatures, memory, calls, down, hist>>

\* As GetRawBody, but resolving with the first chunk of the stream.
GetRawBodyFirstChunk(raw) == SubSeq(raw, 1, Min(1, Len(raw)))

\* getRawBody(req) resolves with the whole of the request stream.
GetRawBody(raw) == raw

\* getRawBody resolves: req.body is the whole body, and the handler goes on.
RawBodyRead(r) ==
  /\ running = 0
  /\ pc[r] = "getRawBody"
  /\ EnterGuest(r, [request[r] EXCEPT !.body = GetRawBody(request[r].raw),
                                      !.defined = TRUE])
  /\ UNCHANGED <<load, started, console, detached, phase, mwFeatures, memory, calls, down, hist>>

\* ------------------------------------------------------------- read_body
\* As ReadBodySlice, but reporting the end of the stream only on a read that
\* fills less than the buffer.
ReadBodySliceShortEof(body, start, bufLimit) ==
  LET end == Min(start + bufLimit, Len(body)) IN
    [slice |-> SubSeq(body, start + 1, end),
     end   |-> end,
     eof   |-> end - start < bufLimit]

\* HttpHandler.readBody: the slice [start, end) it copies, the cursor it
\* leaves and the end-of-stream bit.
ReadBodySlice(body, start, bufLimit) ==
  LET end == Min(start + bufLimit, Len(body)) IN
    [slice |-> SubSeq(body, start + 1, end),
     end   |-> end,
     eof   |-> end = Len(body)]

\* HttpHandler.readBody: the 64-bit result (eof << 32) | n, as its high and
\* low 32 bits
ReadBodyReturn(res) == [hi |-> IF res.eof THEN 1 ELSE 0, lo |-> Len(res.slice)]

\* As BodyMissing, but for a readBody that takes a missing body for an empty
\* one.
BodyMissingAsEmpty(s, kind) == FALSE

\* The body read_body reads for a kind is missing: req.body is undefined
\* without BUFFER_REQUEST, res.buffer without BUFFER_RESPONSE.
BodyMissing(s, kind) ==
  IF kind = REQUEST THEN ~request[s].defined ELSE ~response[s].buffered

BodyFor(s, kind) == IF kind = REQUEST THEN request[s].body ELSE response[s].body

ReadIndex(s, kind) ==
  IF kind = REQUEST THEN state[s].requestBodyReadIndex
  ELSE state[s].responseBodyReadIndex

\* The progress of a guest that writes back every chunk of the request body
\* it reads, after a read_body of kind into a buffer of bufLimit > 0 bytes at
\* buf that returned n bytes and eof.
RoundTripAfterRead(h, kind, buf, bufLimit, n, eof) ==
  IF kind = REQUEST
    THEN IF h.rt = "ok" /\ ~h.rtEof /\ bufLimit > 0
           THEN [h EXCEPT !.rt = "pending", !.rtBuf = buf, !.rtLen = n, !.rtEof = eof]
           ELSE [h EXCEPT !.rt = "broken"]
    ELSE IF h.rt = "pending" THEN [h EXCEPT !.rt = "broken"] ELSE h

\* The same, after a write_body of kind of len bytes at offset.
RoundTripAfterWrite(h, kind, offset, len) ==
  IF kind # REQUEST THEN h
  ELSE IF h.rt = "pending" /\ len = h.rtLen /\ (len = 0 \/ offset = h.rtBuf)
    THEN [h EXCEPT !.rt = "ok"]
    ELSE [h EXCEPT !.rt = "broken"]

ReadBody(r, kind, buf, bufLimit) ==
  /\ calls < load.calls
  /\ "read_body" \in load.uses /\ kind \in load.kinds
  /\ InGuest(r)
  /\ calls' = calls + 1
  /\ LET s == stateStorage IN
     IF kind \notin BodyKind
       THEN /\ TrapBecause(r, "kind")
            /\ UNCHANGED <<memory, state>>
     ELSE IF s = 0 \/ BodyMissing(s, kind)
       THEN /\ TrapBecause(r, "body")
            /\ UNCHANGED <<memory, state>>
       ELSE LET res == ReadBodySlice(BodyFor(s, kind), ReadIndex(s, kind), bufLimit) IN
            IF ~MemFits(buf, res.slice)
              THEN /\ Trap(r)
                   /\ UNCHANGED <<memory, state, hist>>
              ELSE /\ memory' = MemSet(memory, res.slice, buf)
                   /\ state' = IF kind = REQUEST
                                 THEN [state EXCEPT ![s].requestBodyReadIndex = res.end]
                                 ELSE [state EXCEPT ![s].responseBodyReadIndex = res.end]
                   /\ hist' = [hist EXCEPT ![s] =
                                 RoundTripAfterRead(
                                   [@ EXCEPT !.read[kind] = @ \o res.slice,
                                             !.eof[kind] = res.eof],
                                   kind, buf, bufLimit, Len(res.slice), res.eof)]
                   /\ UNCHANGED <<pc, running, stateStorage>>
  /\ UNCHANGED <<load, started, console, detached, phase, mwFeatures, request, response, down>>

\* ------------------------------------------------------------ write_body
\* HttpHandler.writeBody, kind REQUEST: the new req.body
WriteRequestBody(replaced, body, b) == IF replaced THEN body \o b ELSE b

\* HttpHandler.writeBody, kind RESPONSE after next: the new buffered body
WriteResponseBody(replaced, body, b) == IF replaced THEN body \o b ELSE b

\* HttpHandler.writeBody: the call assigns the body of the kind anew instead
\* of appending to it
Replaces(st, kind) ==
  IF kind = REQUEST THEN ~st.requestBodyReplaced
  ELSE st.nextCalled /\ ~st.responseBodyReplaced

\* HttpHandler.writeBody: the sticky flags after the call (the code assigns
\* neither requestBodyReplaced nor responseBodyReplaced)
FlagsAfterWrite(st, kind) == st

WriteBody(r, kind, body, bodyLen) ==
  /\ calls < load.calls
  /\ "write_body" \in load.uses /\ kind \in load.kinds
  /\ InGuest(r)
  /\ calls' = calls + 1
  /\ LET s == stateStorage
         b == MustRead(memory, body, bodyLen)
     IN
     IF \/ MustReadTraps(body, bodyLen)
        \/ kind \in BodyKind /\ s = 0
        \/ kind = RESPONSE /\ state[s].nextCalled /\ ~response[s].buffered
       THEN /\ Trap(r)
            /\ UNCHANGED <<request, response, state, hist>>
     ELSE IF kind \notin BodyKind
       THEN \* the switch has no case for the kind and no default
            UNCHANGED <<request, response, state, hist, pc, running, stateStorage>>
       ELSE /\ IF kind = REQUEST
                 THEN /\ request' = [request EXCEPT ![s].body =
                                       WriteRequestBody(state[s].requestBodyReplaced, @, b),
                                     ![s].defined = TRUE]
                      /\ UNCHANGED response
                 ELSE /\ response' = [response EXCEPT ![s] =
                           IF ~state[s].nextCalled THEN ResWrite(@, b)
                           ELSE [@ EXCEPT !.body =
                                   WriteResponseBody(state[s].responseBodyReplaced, @, b)]]
                      /\ UNCHANGED request
            /\ state' = [state EXCEPT ![s] = FlagsAfterWrite(@, kind)]
            /\ hist' = [hist EXCEPT ![s] =
                          RoundTripAfterWrite(
                            [@ EXCEPT !.wrote = IF kind = RESPONSE /\ ~state[s].nextCalled
                                                  THEN @ \o b ELSE @,
                                      !.written[kind] = TRUE,
                                      !.replaced[kind] = @ \/ Replaces(state[s], kind)],
                            kind, body, bodyLen)]
            /\ UNCHANGED <<pc, running, stateStorage>>
  /\ UNCHANGED <<load, started, console, detached, phase, mwFeatures, memory, down>>

\* ----------------------------------------------- functions returning a value
\* As WriteIfUnderLimit, but writing only a value shorter than the limit.
WriteIfBelowLimit(mem, offset, limit, v) ==
  IF Len(v) >= limit \/ Len(v) = 0
    THEN [mem |-> mem, trap |-> FALSE, ret |-> Len(v)]
  ELSE IF ~MemFits(offset, v) THEN [mem |-> mem, trap |-> TRUE, ret |-> Len(v)]
  ELSE [mem |-> MemSet(mem, v, offset), trap |-> FALSE, ret |-> Len(v)]

\* HttpHandler.writeIfUnderLimit: memory afterwards, whether memory.set threw
\* a RangeError, and the length it returns
WriteIfUnderLimit(mem, offset, limit, v) ==
  IF Len(v) > limit \/ Len(v) = 0
    THEN [mem |-> mem, trap |-> FALSE, ret |-> Len(v)]
  ELSE IF ~MemFits(offset, v) THEN [mem |-> mem, trap |-> TRUE, ret |-> Len(v)]
  ELSE [mem |-> MemSet(mem, v, offset), trap |-> FALSE, ret |-> Len(v)]

\* HttpHandler.writeStringIfUnderLimit
WriteStringIfUnderLimit(mem, offset, limit, v) ==
  WriteIfUnderLimit(mem, offset, limit, BufferFrom(v))

\* getProtocolVersion: the switch on req.httpVersion: "1.0", "1.1", "2" and
\* "2.0" become "HTTP/1.0", "HTTP/1.1" and "HTTP/2.0", any other passes.
ProtocolVersion(httpVersion) ==
  CASE httpVersion = <<49, 46, 48>> -> <<72, 84, 84, 80, 47, 49, 46, 48>>
    [] httpVersion = <<49, 46, 49>> -> <<72, 84, 84, 80, 47, 49, 46, 49>>
    [] httpVersion \in {<<50>>, <<50, 46, 48>>} -> <<72, 84, 84, 80, 47, 50, 46, 48>>
    [] OTHER -> httpVersion

\* A host function of the guest of request r ends with writeIfUnderLimit.
ReturnIfUnderLimit(r, w) ==
  /\ calls < load.calls
  /\ InGuest(r)
  /\ calls' = calls + 1
  /\ memory' = w.mem
  /\ IF w.trap THEN TrapBecause(r, "memory")
     ELSE UNCHANGED <<pc, running, stateStorage, hist>>
  /\ UNCHANGED <<load, started, console, detached, phase, mwFeatures, request, response, state, down>>

\* HttpHandler.getConfig
GetConfig(r, buf, bufLimit) ==
  /\ "get_config" \in load.uses
  /\ ReturnIfUnderLimit(r, WriteIfUnderLimit(memory, buf, bufLimit, Config))

\* HttpHandler.getMethod
GetMethod(r, buf, bufLimit) ==
  /\ "get_method" \in load.uses
  /\ ReturnIfUnderLimit(r, WriteStringIfUnderLimit(memory, buf, bufLimit,
                                                   request[r].method))

\* HttpHandler.getProtocolVersion
GetProtocolVersion(r, buf, bufLimit) ==
  /\ "get_protocol_version" \in load.uses
  /\ ReturnIfUnderLimit(r, WriteStringIfUnderLimit(memory, buf, bufLimit,
                            ProtocolVersion(request[r].httpVersion)))

\* HttpHandler.getUri
GetUri(r, buf, bufLimit) ==
  /\ "get_uri" \in load.uses
  /\ ReturnIfUnderLimit(r, WriteStringIfUnderLimit(memory, buf, bufLimit,
                                                   request[r].url))

\* HttpHandler.setUri
SetUri(r, uri, uriLen) ==
  /\ calls < load.calls
  /\ "set_uri" \in load.uses
  /\ InGuest(r)
  /\ calls' = calls + 1
  /\ LET s == stateStorage IN
     IF uriLen > 0 /\ MustReadTraps(uri, uriLen)
       THEN TrapBecause(r, "memory") /\ UNCHANGED request
     ELSE IF s = 0
       THEN TrapBecause(r, "store") /\ UNCHANGED request
     ELSE /\ request' = [request EXCEPT ![s].url =
                           IF uriLen > 0 THEN MustReadString(memory, uri, uriLen)
                           ELSE <<>>]
          /\ hist' = [hist EXCEPT ![s].uriSet = TRUE,
                                  ![s].setUri = MustRead(memory, uri, uriLen)]
          /\ UNCHANGED <<pc, running, stateStorage>>
  /\ UNCHANGED <<load, started, console, detached, phase, mwFeatures, memory, response, state, down>>

\* ---------------------------------------------------------------- logging
\* As ConsoleMethod, but for a log that writes level NONE as an error.
ConsoleMethodOfNone(level) ==
  CASE level = DEBUG -> "debug"
    [] level = INFO -> "info"
    [] level = WARN -> "warn"
    [] level \in {ERROR, NONE} -> "error"
    [] OTHER -> ""

\* HttpHandler.log: the switch on level; "" when no case applies
ConsoleMethod(level) ==
  CASE level = DEBUG -> "debug"
    [] level = INFO -> "info"
    [] level = WARN -> "warn"
    [] level = ERROR -> "error"
    [] OTHER -> ""

\* HttpHandler.log: console.debug / info / warn / error write the string,
\* encoded, as one line.
Log(r, level, buf, bufLimit) ==
  /\ calls < load.calls
  /\ "log" \in load.uses
  /\ InGuest(r)
  /\ calls' = calls + 1
  /\ IF MustReadTraps(buf, bufLimit)
       THEN TrapBecause(r, "memory") /\ UNCHANGED console
       ELSE /\ console' = IF ConsoleMethod(level) = "" THEN console
                          ELSE Append(console,
                                      <<ConsoleMethod(level),
                                        BufferFrom(MustReadString(memory, buf, bufLimit))>>)
            /\ UNCHANGED <<pc, running, stateStorage, hist>>
  /\ UNCHANGED <<load, started, detached, phase, mwFeatures, memory, request, response, state, down>>

\* HttpHandler.logEnabled: the value it returns
LogEnabledReturn(level) == IF level # DEBUG THEN 1 ELSE 0

\* HttpHandler.logEnabled
LogEnabled(r, level) ==
  /\ calls < load.calls
  /\ "log_enabled" \in load.uses
  /\ InGuest(r)
  /\ calls' = calls + 1
  /\ hist' = [hist EXCEPT ![r].logEnabled = LogEnabledReturn(level)]
  /\ UNCHANGED <<load, started, console, detached, phase, mwFeatures, memory, stateStorage, running,
                 pc, request, response, state, down>>

\* ------------------------------------------------------------ the headers
\* The entry of a dictionary for a name: headers[n]; <<>> stands for undefined
HeaderLookup(headers, n) ==
  LET found == {i \in 1..Len(headers) : headers[i].name = n} IN
    IF found = {} THEN <<>> ELSE <<headers[CHOOSE i \in found : TRUE]>>

\* ResponseBuffer.trailers as a dictionary: the values added under one name
TrailersDict(res) ==
  IF res.trailers = <<>> THEN <<>>
  ELSE <<HeaderEntry(load.trailerName, TRUE,
                     [i \in 1..Len(res.trailers) |-> <<res.trailers[i]>>])>>

\* The switch on kind in getHeaderNames and getHeaderValues
HeadersFor(s, kind) ==
  CASE kind = REQUEST -> request[s].headers
    [] kind = RESPONSE -> response[s].headers
    [] kind = REQUEST_TRAILERS -> request[s].trailers
    [] kind = RESPONSE_TRAILERS -> TrailersDict(response[s])

\* (state.response as BufferedResponse).buffer.trailers throws a TypeError
\* when no ResponseBuffer is attached; so do Object.keys(headers) and
\* headers[n] when no case of the switch assigned headers.
HeadersMissing(s, kind) ==
  \/ kind = RESPONSE_TRAILERS /\ ~response[s].buffered
  \/ kind \notin HeaderKind

\* Object.keys(headers)
HeaderNamesOf(headers) == [i \in 1..Len(headers) |-> headers[i].name]

\* getHeaderValues: the list it builds from headers[n]: an array as it is, a
\* string as a list of one, and nothing for undefined and for the empty
\* string, which `if (value)` takes for absent.
HeaderValuesOf(headers, n) ==
  LET e == HeaderLookup(headers, n) IN
    IF e = <<>> THEN <<>>
    ELSE IF e[1].array THEN e[1].values
    ELSE IF e[1].values[1] = <<>> THEN <<>>
    ELSE e[1].values

\* res.setHeader(n, v): the header is kept under its lower-cased name
SetHeaderEntry(headers, n, v) ==
  LET key == ToLowerCase(n) IN
    IF HeaderLookup(headers, key) = <<>>
      THEN Append(headers, HeaderEntry(key, FALSE, <<v>>))
      ELSE [i \in 1..Len(headers) |->
              IF headers[i].name = key THEN HeaderEntry(key, FALSE, <<v>>)
              ELSE headers[i]]

\* res.setHeader throws ERR_HTTP_HEADERS_SENT once bytes went to the wire.
HeadersSent(res) == res.wire # <<>>

\* writeNullTerminated: byteCount, each item's length plus one
RECURSIVE ByteCount(_)
ByteCount(input) ==
  IF input = <<>> THEN 0 ELSE Len(Head(input)) + 1 + ByteCount(Tail(input))

\* As WriteItems, but without the zero byte after each item.
RECURSIVE WriteItemsNoTerminator(_, _, _)
WriteItemsNoTerminator(mem, pos, items) ==
  IF items = <<>> THEN [mem |-> mem, trap |-> FALSE]
  ELSE IF ~MemFits(pos, Head(items)) THEN [mem |-> mem, trap |-> TRUE]
  ELSE WriteItemsNoTerminator(MemSet(mem, Head(items), pos),
                              pos + Len(Head(items)) + 1, Tail(items))

\* writeNullTerminated: the loop over the items. memory.set throws a
\* RangeError when an item does not fit, after the items before it were
\* written; the store of the zero byte is ignored beyond the end of memory.
RECURSIVE WriteItems(_, _, _)
WriteItems(mem, pos, items) ==
  IF items = <<>> THEN [mem |-> mem, trap |-> FALSE]
  ELSE IF ~MemFits(pos, Head(items)) THEN [mem |-> mem, trap |-> TRUE]
  ELSE LET end == pos + Len(Head(items))
           set == MemSet(mem, Head(items), pos)
       IN WriteItems(IF end < MemSize THEN [set EXCEPT ![end] = 0] ELSE set,
                     end + 1, Tail(items))

\* writeNullTerminated: memory afterwards, whether it threw, and the 64-bit
\* result (count << 32) | byteCount as its high and low 32 bits
WriteNullTerminated(mem, buf, bufLimit, input) ==
  LET encodedInput == [i \in 1..Len(input) |-> BufferFrom(input[i])]
      countLen == [hi |-> Len(input), lo |-> ByteCount(encodedInput)]
  IN
    IF Len(input) = 0 THEN [mem |-> mem, trap |-> FALSE, ret |-> [hi |-> 0, lo |-> 0]]
    ELSE IF ByteCount(encodedInput) > bufLimit
      THEN [mem |-> mem, trap |-> FALSE, ret |-> countLen]
    ELSE LET w == WriteItems(mem, buf, encodedInput) IN
           [mem |-> w.mem, trap |-> w.trap, ret |-> countLen]

\* A host function ends with writeNullTerminated.
ReturnNullTerminated(r, w) ==
  /\ memory' = w.mem
  /\ IF w.trap THEN TrapBecause(r, "memory")
     ELSE UNCHANGED <<pc, running, stateStorage, hist>>

\* HttpHandler.getHeaderNames
GetHeaderNames(r, kind, buf, bufLimit) ==
  /\ calls < load.calls
  /\ "get_header_names" \in load.uses
  /\ InGuest(r)
  /\ calls' = calls + 1
  /\ LET s == stateStorage IN
     IF s = 0 \/ HeadersMissing(s, kind)
       THEN TrapBecause(r, "headers") /\ UNCHANGED memory
       ELSE ReturnNullTerminated(r,
              WriteNullTerminated(memory, buf, bufLimit,
                                  HeaderNamesOf(HeadersFor(s, kind))))
  /\ UNCHANGED <<load, started, console, detached, phase, mwFeatures, request, response, state, down>>

\* As NameEmpty, but for a function that lets the empty name pass.
NameEmptyAllowed(nameLen) == FALSE

\* if (nameLen == 0) throw new Error('HTTP header name cannot be empty')
NameEmpty(nameLen) == nameLen = 0

\* HttpHandler.getHeaderValues
GetHeaderValues(r, kind, name, nameLen, buf, bufLimit) ==
  /\ calls < load.calls
  /\ "get_header_values" \in load.uses
  /\ InGuest(r)
  /\ calls' = calls + 1
  /\ LET s == stateStorage IN
     IF NameEmpty(nameLen)
       THEN TrapBecause(r, "name") /\ UNCHANGED memory
     ELSE IF s = 0 \/ HeadersMissing(s, kind)
       THEN TrapBecause(r, "headers") /\ UNCHANGED memory
     ELSE IF MustReadTraps(name, nameLen)
       THEN TrapBecause(r, "memory") /\ UNCHANGED memory
     ELSE ReturnNullTerminated(r,
            WriteNullTerminated(memory, buf, bufLimit,
              HeaderValuesOf(HeadersFor(s, kind),
                             ToLowerCase(MustReadString(memory, name, nameLen)))))
  /\ UNCHANGED <<load, started, console, detached, phase, mwFeatures, request, response, state, down>>

\* HttpHandler.setHeader
SetHeader(r, kind, name, nameLen, value, valueLen) ==
  /\ calls < load.calls
  /\ "set_header_value" \in load.uses
  /\ InGuest(r)
  /\ calls' = calls + 1
  /\ LET s == stateStorage IN
     IF NameEmpty(nameLen)
       THEN TrapBecause(r, "name") /\ UNCHANGED response
     ELSE IF kind # RESPONSE
       THEN TrapBecause(r, "kind") /\ UNCHANGED response
     ELSE IF MustReadTraps(name, nameLen) \/ MustReadTraps(value, valueLen)
       THEN TrapBecause(r, "memory") /\ UNCHANGED response
     ELSE IF s # 0 /\ HeadersSent(response[s])
       THEN TrapBecause(r, "sent") /\ UNCHANGED response
     ELSE /\ response' = IF s = 0 THEN response
                         ELSE [response EXCEPT ![s].headers =
                                 SetHeaderEntry(@, MustReadString(memory, name, nameLen),
                                                MustReadString(memory, value, valueLen))]
          /\ UNCHANGED <<pc, running, stateStorage, hist>>
  /\ UNCHANGED <<load, started, console, detached, phase, mwFeatures, memory, request, state, down>>

\* The guest of request r calls a header function with arguments of its
\* choice. A guest that passes kinds outside the enums passes no others.
ChoosesKind(k) == (k \in UnknownKinds) = (UnknownKinds \subseteq load.kinds)

CallGetHeaderNames(r) ==
  /\ "get_header_names" \in load.uses /\ InGuest(r)
  /\ \E k \in KindArgs(HeaderKind), buf \in BufOffsets, n \in BufLimits :
       ChoosesKind(k) /\ GetHeaderNames(r, k, buf, n)

CallGetHeaderValues(r) ==
  /\ "get_header_values" \in load.uses /\ InGuest(r)
  /\ \E k \in KindArgs(HeaderKind), name \in NameOffsets, nl \in NameLens,
        buf \in BufOffsets, n \in BufLimits :
       ChoosesKind(k) /\ GetHeaderValues(r, k, name, nl, buf, n)

CallSetHeader(r) ==
  /\ "set_header_value" \in load.uses /\ InGuest(r)
  /\ \E k \in KindArgs(HeaderKind), name \in NameOffsets, nl \in NameLens,
        value \in Offsets, vl \in NameLens :
       ChoosesKind(k) /\ SetHeader(r, k, name, nl, value, vl)

\* --------------------------------------------------- handle_request returns
\* The i64 a guest export returns reaches JavaScript as a signed BigInt: here
\* q * 2^32 + r with q the high word read as a signed 32-bit number and r the
\* low word.
ToBigInt64(ctxNext) ==
  [q |-> IF ctxNext.hi[1] < 32768 THEN ctxNext.hi[1] * 65536 + ctxNext.hi[2]
         ELSE (ctxNext.hi[1] - 65536) * 65536 + ctxNext.hi[2],
   r |-> ctxNext.lo]

\* As ShiftRight32, but with the >> of Number, which takes its operand as a
\* 32-bit integer and its shift count modulo 32.
ShiftRight32OfNumber(b) == b.r

\* BigInt >> 32n: the floor of the division by 2^32
ShiftRight32(b) == b.q

\* The i32 parameter of a guest export takes a Number by ToInt32: the number
\* modulo 2^32, here as the high and low 16 bits of the word.
ToInt32(n) == <<(n \div 65536) % 65536, n % 65536>>

\* const ctx = Number(ctxNext >> 32n), as handleResponse(ctx) receives it
HandleResponseCtx(ctxNext) == ToInt32(ShiftRight32(ToBigInt64(ctxNext)))

\* As Proceed, but taking any non-zero value for the proceed bit.
ProceedNonZero(ctxNext) == ctxNext # 0

\* (ctxNext & 0x1n) === 0x1n
Proceed(ctxNext) == ctxNext % 2 = 1

\* Lines 617-619: release the buffer when the middleware mask has
\* BUFFER_RESPONSE.
ReleaseIfBuffering(res) ==
  IF Has(mwFeatures, BUFFER_RESPONSE) THEN Release(res) ELSE res

\* As ThreadAfterNext, but for a handler that awaits next() and so gives the
\* thread back before handle_response.
ThreadAfterAwaitedNext(r) == 0

\* The thread after next() returned: the handler does not await next(), it
\* goes on to handle_response in the same task.
ThreadAfterNext(r) == r

\* handle_request returns without the proceed bit: the handler ends the
\* response, releases the buffer and leaves stateStorage.run.
RespondDirectly(r, ctxNext) ==
  /\ InGuest(r) /\ pc[r] = "handle_request"
  /\ ~Proceed(ctxNext)
  /\ response' = [response EXCEPT ![r] = ReleaseIfBuffering(ResEnd(@, <<>>))]
  /\ hist' = [hist EXCEPT ![r].lowBit = ctxNext % 2, ![r].hostEnd = TRUE]
  /\ pc' = [pc EXCEPT ![r] = "done"]
  /\ running' = 0
  /\ stateStorage' = 0
  /\ UNCHANGED <<load, started, console, detached, phase, mwFeatures, memory, calls, request, state, down>>

\* The request body the downstream handler finds: req.body when it is set,
\* otherwise what it reads from the request stream.
BodyNextSees(req) == IF req.defined THEN req.body ELSE req.raw

\* handle_request returns with the proceed bit: the handler calls next().
CallNext(r, ctxNext, hi) ==
  /\ InGuest(r) /\ pc[r] = "handle_request"
  /\ Proceed(ctxNext)
  /\ hi \in load.ctxs
  /\ hist' = [hist EXCEPT ![r].lowBit = ctxNext % 2, ![r].nextInvoked = TRUE,
                          ![r].ctxNext = [hi |-> hi, lo |-> ctxNext % 2],
                          ![r].seen = BodyNextSees(request[r]),
                          ![r].seenUrl = request[r].url,
                          ![r].roundTrip = hist[r].rt = "ok" /\ hist[r].rtEof]
  /\ down' = [down EXCEPT ![r].status = "running"]
  /\ pc' = [pc EXCEPT ![r] = "next"]
  /\ UNCHANGED <<load, started, console, detached, phase, mwFeatures, memory, stateStorage, running, calls, request,
                 response, state>>

\* ------------------------------------------------------ the downstream handler
\* The downstream handler runs inside next(), and may go on in later tasks of
\* its own after next() returned.
DownActive(r) ==
  \/ down[r].status = "running" /\ running = r /\ pc[r] = "next"
  \/ down[r].status = "deferred" /\ running = 0

DownUnchanged ==
  UNCHANGED <<load, started, console, detached, phase, mwFeatures, memory, stateStorage, running, calls, pc, request,
              state, hist>>

\* res.write(chunk)
DownWrite(r) ==
  /\ DownActive(r)
  /\ down[r].writes < load.writes
  /\ response' = [response EXCEPT ![r] = ResWrite(@, DownChunk(down[r].writes))]
  /\ down' = [down EXCEPT ![r].writes = @ + 1]
  /\ DownUnchanged

\* res.addTrailers({name: value})
DownAddTrailers(r) ==
  /\ DownActive(r)
  /\ down[r].trailers < MaxTrailers
  /\ response' = [response EXCEPT ![r] = ResAddTrailers(@, 30 + down[r].trailers)]
  /\ down' = [down EXCEPT ![r].trailers = @ + 1]
  /\ DownUnchanged

\* The downstream handler throws. The router catches the exception, so that
\* next() returns normally, and its final handler ends the response in a
\* later task.
DownRaise(r) ==
  /\ load.raises
  /\ down[r].status = "running" /\ running = r /\ pc[r] = "next"
  /\ down' = [down EXCEPT ![r].status = "raised"]
  /\ hist' = [hist EXCEPT ![r].raised = TRUE]
  /\ UNCHANGED <<load, started, console, detached, phase, mwFeatures, memory, stateStorage, running, calls, pc,
                 request, response, state>>

\* res.sendStatus(status)
DownSendStatus(r, status) ==
  /\ DownActive(r)
  /\ status \in load.statuses
  /\ down[r].sent = 0
  /\ response' = [response EXCEPT ![r] = ResSendStatus(@, status)]
  /\ down' = [down EXCEPT ![r].sent = status,
                          ![r].status = IF response[r].buffered THEN @ ELSE "finished"]
  /\ DownUnchanged

\* res.end in any of its forms, as res.send(data) and the router's final
\* handler do
DownEnd(r, data, cbPos) ==
  /\ DownActive(r) \/ (down[r].status = "raised" /\ running = 0)
  /\ cbPos \in load.ends
  /\ EndForm(data, cbPos)
  /\ data = "chunk" => down[r].writes < load.writes
  /\ response' = [response EXCEPT ![r] =
                    ResEndCall(@, data, IF data = "chunk" THEN DownChunk(down[r].writes)
                                        ELSE <<>>, cbPos)]
  /\ down' = [down EXCEPT ![r].status = "finished",
                          ![r].writes = IF data = "chunk" THEN @ + 1 ELSE @,
                          ![r].cb = cbPos # 0]
  /\ DownUnchanged

\* handleResponse(ctx) passes one argument: the guest's second parameter,
\* is_error, receives undefined, which an i32 parameter takes as 0, whether
\* the downstream handler raised or not.
IsErrorArgument(raised) == 0

\* As NextCalledAfterNext, but for a handler that leaves nextCalled as it was.
NextCalledNotSet(r) == state[r].nextCalled

\* state.nextCalled = true, line 613
NextCalledAfterNext(r) == TRUE

\* next() returns: nextCalled is set and handle_response is called.
NextReturn(r) ==
  /\ running = r /\ pc[r] = "next"
  /\ state' = [state EXCEPT ![r].nextCalled = NextCalledAfterNext(r)]
  /\ down' = [down EXCEPT ![r].status = IF @ = "running" THEN "deferred" ELSE @]
  /\ hist' = [hist EXCEPT ![r].respInvoked = TRUE,
                          ![r].ctx = HandleResponseCtx(hist[r].ctxNext),
                          ![r].isError = IsErrorArgument(hist[r].raised),
                          ![r].written = [k \in BodyKind |-> FALSE]]
  /\ pc' = [pc EXCEPT ![r] = "handle_response"]
  /\ running' = ThreadAfterNext(r)
  /\ UNCHANGED <<load, started, console, detached, phase, mwFeatures, memory, stateStorage, calls, request, response>>

\* handle_response returns: the buffer is released and stateStorage.run left.
ResponseReturn(r) ==
  /\ InGuest(r) /\ pc[r] = "handle_response"
  /\ response' = [response EXCEPT ![r] = ReleaseIfBuffering(@)]
  /\ pc' = [pc EXCEPT ![r] = "done"]
  /\ running' = 0
  /\ stateStorage' = 0
  /\ UNCHANGED <<load, started, console, detached, phase, mwFeatures, memory, calls, request, state, down, hist>>

\* ------------------------------------------------------------------- Next
Next ==
  \/ \E f \in FeatureMasks : EnableFeatures(0, f)
  \/ StartGuest
  \/ InitTrap
  \/ FactoryReturn
  \/ \E r \in Requests :
       \/ Handler(r)
       \/ CallMissingExport(r)
       \/ GrowMemory(r)
       \/ RawBodyRead(r)
       \/ \E f \in FeatureMasks : EnableFeatures(r, f)
       \/ \E k \in KindArgs(BodyKind), buf \in Offsets, n \in Limits : ReadBody(r, k, buf, n)
       \/ \E k \in KindArgs(BodyKind), off \in Offsets, n \in Limits : WriteBody(r, k, off, n)
       \/ \E buf \in BufOffsets, n \in BufLimits : GetConfig(r, buf, n)
       \/ \E buf \in BufOffsets, n \in BufLimits : GetMethod(r, buf, n)
       \/ \E buf \in BufOffsets, n \in BufLimits : GetProtocolVersion(r, buf, n)
       \/ \E buf \in BufOffsets, n \in BufLimits : GetUri(r, buf, n)
       \/ \E uri \in UriOffsets, n \in UriLens : SetUri(r, uri, n)
       \/ \E level \in LogLevels, buf \in LogOffsets, n \in LogLens : Log(r, level, buf, n)
       \/ \E level \in LogLevels : LogEnabled(r, level)
       \/ CallGetHeaderNames(r)
       \/ CallGetHeaderValues(r)
       \/ CallSetHeader(r)
       \/ \E c \in CtxNextValues : RespondDirectly(r, c)
       \/ \E c \in CtxNextValues, hi \in CtxWords : CallNext(r, c, hi)
       \/ DownWrite(r)
       \/ DownAddTrailers(r)
       \/ DownRaise(r)
       \/ \E status \in StatusCodes : DownSendStatus(r, status)
       \/ \E data \in EndData, cbPos \in CallbackPositions : DownEnd(r, data, cbPos)
       \/ NextReturn(r)
       \/ ResponseReturn(r)

Spec == Init /\ [][Next]_vars

\* ================================================================== claims
InFlight(r) == pc[r] \in {"getRawBody", "handle_request", "next", "handle_response"}

\* C1: the downstream handler and handle_response are invoked exactly when
\* handle_request returned a value with the low bit set; with the low bit clear
\* the handler ends the response itself and invokes neither.
C1_ProceedIffLowBit ==
  \A r \in Requests :
    /\ hist[r].nextInvoked <=> hist[r].lowBit = 1
    /\ down[r].status # "idle" <=> hist[r].lowBit = 1
    /\ hist[r].respInvoked => hist[r].lowBit = 1
    /\ hist[r].lowBit = 1 /\ pc[r] # "next" => hist[r].respInvoked
    /\ hist[r].lowBit = 0 =>
         hist[r].hostEnd /\ ~hist[r].respInvoked /\ ~state[r].nextCalled
    /\ hist[r].hostEnd => hist[r].lowBit = 0

\* One request answered by the guest and another passed on, both finished.
C1_Witness ==
  \E r1, r2 \in Requests :
    /\ pc[r1] = "done" /\ hist[r1].lowBit = 0 /\ hist[r1].hostEnd
    /\ pc[r2] = "done" /\ hist[r2].lowBit = 1 /\ hist[r2].respInvoked
    /\ down[r2].status = "finished"

\* The three calls release makes on the original response.
ReleaseCalls(res) ==
  << <<"write", res.body>>, <<"addTrailers", res.trailers>>, <<"end", <<>> >> >>

\* C2: while a ResponseBuffer is attached nothing reaches the wire before the
\* release; the release calls write(body), addTrailers(trailers), end in that
\* order, once, on the proceed path and on the direct path.
C2_BufferHoldsUntilRelease ==
  [][\A r \in Requests :
       response'[r].buffered =>
         IF pc'[r] = "done"
           THEN IF pc[r] = "done"
                  THEN response'[r].wire = response[r].wire
                  ELSE response'[r].wire = ReleaseCalls(response[r])
           ELSE response'[r].wire = <<>>]_vars

\* A buffered response released on the proceed path with a body and a trailer
\* of the downstream handler, and one released on the direct path.
C2_Witness ==
  \E r1, r2 \in Requests :
    /\ pc[r1] = "done" /\ response[r1].buffered /\ hist[r1].lowBit = 1
    /\ response[r1].wire = ReleaseCalls(response[r1])
    /\ response[r1].body # <<>> /\ response[r1].trailers # <<>>
    /\ pc[r2] = "done" /\ response[r2].buffered /\ hist[r2].lowBit = 0
    /\ Len(response[r2].wire) = 3

\* C3: handle_response is invoked, nextCalled set and the buffer released only
\* after the downstream handler has completed, also when it completes in a
\* later task: once nextCalled is set the downstream handler of the request
\* writes, adds and ends nothing more.
C3_ResponseAfterDownstream ==
  [][\A r \in Requests : state[r].nextCalled => down'[r] = down[r]]_vars

\* C4: one request at a time is inside the guest, from the start of its
\* handle_request to the end of its handle_response or direct response, and
\* the RequestState the host functions resolve is that request's.
C4_OneRequestAtATime ==
  /\ Cardinality({r \in Requests :
                    pc[r] \in {"handle_request", "next", "handle_response"}}) <= 1
  /\ \A r \in Requests :
       pc[r] \in {"handle_request", "next", "handle_response"} =>
         stateStorage = r /\ running = r

\* A request in handle_response whose read_body moved its own cursor, while
\* another request is in flight.
C4_Witness ==
  \E r1, r2 \in Requests :
    /\ r1 # r2
    /\ pc[r1] = "handle_response" /\ state[r1].requestBodyReadIndex > 0
    /\ pc[r2] = "getRawBody" /\ state[r2].requestBodyReadIndex = 0

\* C5: for each body kind the chunks successive read_body calls return
\* concatenate to the body (as long as no write_body replaced it), and the
\* end-of-stream bit is set exactly on the calls that leave nothing unread.
C5_ReadBodyConcatenates ==
  [][\A r \in Requests, k \in BodyKind, buf \in Offsets, n \in Limits :
       ReadBody(r, k, buf, n) /\ pc'[r] # "trapped" /\ ~hist[r].replaced[k] =>
         /\ hist'[r].read[k] = SubSeq(BodyFor(r, k), 1, ReadIndex(r, k)')
         /\ hist'[r].eof[k] <=> hist'[r].read[k] = BodyFor(r, k)
         /\ ReadBodyReturn(ReadBodySlice(BodyFor(r, k), ReadIndex(r, k), n)).hi
              = (IF hist'[r].eof[k] THEN 1 ELSE 0)]_vars

\* The longest request body read to its end in two calls of one byte each.
C5_Witness ==
  \E r \in Requests :
    /\ calls = 2 /\ Len(request[r].raw) = 2
    /\ ~hist[r].replaced[REQUEST]
    /\ hist[r].read[REQUEST] = request[r].raw /\ hist[r].eof[REQUEST]
    /\ memory[0] = request[r].raw[2]

\* C6: in a phase the first write_body of a kind replaces the body and sets
\* the sticky flag, and every later one appends (REQUEST in handle_request,
\* RESPONSE in handle_response).
C6_FirstReplacesLaterAppend ==
  [][\A r \in Requests, k \in BodyKind, off \in Offsets, n \in Limits :
       /\ WriteBody(r, k, off, n) /\ pc'[r] # "trapped"
       /\ \/ k = REQUEST /\ pc[r] = "handle_request"
          \/ k = RESPONSE /\ pc[r] = "handle_response"
       => IF hist[r].written[k]
            THEN BodyFor(r, k)' = BodyFor(r, k) \o MustRead(memory, off, n)
            ELSE /\ BodyFor(r, k)' = MustRead(memory, off, n)
                 /\ IF k = REQUEST THEN state'[r].requestBodyReplaced
                    ELSE state'[r].responseBodyReplaced]_vars

\* C7: after write_body(RESPONSE) calls in handle_request and a return without
\* the proceed bit, the client receives the payloads concatenated in call
\* order, with and without BUFFER_RESPONSE.
C7_DirectResponseBody ==
  \A r \in Requests :
    pc[r] = "done" /\ hist[r].lowBit = 0 =>
      Ended(response[r].wire) /\ Delivered(r) = hist[r].wrote

\* Two one-byte payloads delivered from a buffered direct response.
C7_Witness ==
  \E r \in Requests :
    /\ pc[r] = "done" /\ hist[r].lowBit = 0 /\ response[r].buffered
    /\ hist[r].wrote = <<InitialMemory[0], InitialMemory[0]>>
    /\ Delivered(r) = hist[r].wrote

\* C8: a guest that writes back every chunk of the request body it reads,
\* until the end of the stream, and then proceeds, leaves the body the
\* downstream handler sees equal to the one the client sent.
C8_RoundTripKeepsBody ==
  \A r \in Requests : hist[r].roundTrip => hist[r].seen = request[r].raw

\* C9: enable_features(want) sets the current mask to the union of its former
\* value and want, and returns the new mask.
C9_EnableFeaturesUnion ==
  [][\A r \in 0..NumReq, want \in FeatureMasks :
       EnableFeatures(r, want) =>
         /\ CurrentMask' = BitOr(CurrentMask, want)
         /\ EnableFeaturesReturn(CurrentMask, want) = CurrentMask']_vars

\* C10: no bit of the middleware mask is ever cleared, and the mask in effect
\* for a request contains the middleware mask.
C10_FeaturesMonotonic ==
  [][/\ BitAnd(mwFeatures', mwFeatures) = mwFeatures
     /\ \A r \in Requests : BitAnd(RequestFeatures(r)', mwFeatures') = mwFeatures']_vars

\* C11: an enable_features call made while a request is handled changes that
\* request's mask only: once the factory has returned the middleware mask
\* never changes, and a request enters handle_request with the middleware
\* mask as its effective mask.
C11_RequestRaiseDoesNotLeak ==
  [][/\ phase = "serving" => mwFeatures' = mwFeatures
     /\ \A r \in Requests, f \in FeatureMasks :
          EnableFeatures(r, f) =>
            \A q \in Requests \ {r} : RequestFeatures(q)' = RequestFeatures(q)
     /\ \A r \in Requests :
          pc[r] # "handle_request" /\ pc'[r] = "handle_request" =>
            RequestFeatures(r)' = mwFeatures']_vars

\* A request enters the guest after an earlier request, now finished, set a
\* mask of its own that differs from the middleware's.
C11_Witness ==
  \E r1, r2 \in Requests :
    /\ pc[r1] = "done" /\ state[r1].features # Undefined
    /\ state[r1].features # mwFeatures
    /\ pc[r2] = "handle_request" /\ calls = 1
    /\ RequestFeatures(r2) = mwFeatures /\ mwFeatures # 0

\* C12: the first argument of handle_response is, as a 32-bit word, the high
\* 32 bits of the value handle_request returned for the same request, also
\* when bit 63 of that value is set.
C12_CtxBitExact ==
  \A r \in Requests :
    hist[r].respInvoked =>
      /\ hist[r].ctxNext.hi \in load.ctxs
      /\ hist[r].ctx = hist[r].ctxNext.hi

\* handle_response received a context whose bit 31 (bit 63 of the returned
\* value) and other bits are set.
C12_Witness ==
  \E r \in Requests :
    /\ hist[r].respInvoked /\ pc[r] = "handle_response"
    /\ hist[r].ctxNext.hi = <<43981, 4660>>
    /\ hist[r].ctx = <<43981, 4660>>

\* C13: on the proceed path handle_response is invoked whether the downstream
\* handler raised or not, with is_error = 1 when it raised and 0 otherwise.
C13_IsErrorReportsRaise ==
  \A r \in Requests :
    /\ hist[r].nextInvoked /\ pc[r] \in {"handle_response", "done"} => hist[r].respInvoked
    /\ hist[r].respInvoked => hist[r].isError = (IF hist[r].raised THEN 1 ELSE 0)

\* C19: a host function that reads len > 0 bytes at a guest-supplied offset
\* traps exactly when offset >= memory.length or offset + len > memory.length;
\* a read that ends with the last byte of memory succeeds and returns those
\* bytes (here write_body(REQUEST), which traps for no other reason).
C19_MustReadBounds ==
  [][\A r \in Requests, off \in Offsets, n \in Limits :
       WriteBody(r, REQUEST, off, n) /\ n > 0 =>
         /\ pc'[r] = "trapped" <=> (off >= MemSize \/ off + n > MemSize)
         /\ pc'[r] # "trapped" =>
              request'[r].body = [i \in 1..n |-> memory[off + i - 1]]]_vars

\* C17: for each body kind the read cursor stays within the current body,
\* 0 <= cursor <= length, whatever read_body and write_body calls were made,
\* also after a write_body that replaced the body by a shorter one.
C17_CursorWithinBody ==
  \A r \in Requests, k \in BodyKind :
    0 <= ReadIndex(r, k) /\ ReadIndex(r, k) <= Len(BodyFor(r, k))

\* C18: within a request the read cursor of each body kind never decreases,
\* whatever read_body and write_body calls are made.
C18_CursorNeverDecreases ==
  [][\A r \in Requests, k \in BodyKind :
       InGuest(r) => ReadIndex(r, k)' >= ReadIndex(r, k)]_vars

\* C14: for every header kind, every non-empty name and every value, the
\* empty one included, set_header_value(kind, name, v) succeeds and a
\* get_header_values(kind, name) that follows in the same request returns the
\* list of v alone.
C14_SetThenGetHeader ==
  [][calls' = calls + 1 /\ "set_header_value" \in load.uses =>
     \A r \in Requests, k \in HeaderKind, name \in NameOffsets,
        value \in Offsets, vl \in NameLens :
       /\ SetHeader(r, k, name, 1, value, vl)
       /\ ~MustReadTraps(name, 1) /\ ~MustReadTraps(value, vl)
       /\ ~HeadersMissing(r, k) /\ ~HeadersSent(response[r])
       => /\ pc'[r] # "trapped"
          /\ HeaderValuesOf(HeadersFor(r, k), ToLowerCase(MustRead(memory, name, 1)))'
               = <<MustRead(memory, value, vl)>>]_vars

\* The items of a list laid out back to back, a zero byte after each.
RECURSIVE NullTerminated(_)
NullTerminated(items) ==
  IF items = <<>> THEN <<>> ELSE Head(items) \o <<0>> \o NullTerminated(Tail(items))

\* What a call that returns the list items through writeNullTerminated into
\* the buffer of n bytes at buf has to do: return the number of items and the
\* number of bytes, write nothing when the bytes exceed n and otherwise, the
\* buffer being inside memory, write the items and nothing else.
ReturnsList(r, items, buf, n) ==
  LET bytes == NullTerminated(items) IN
    /\ WriteNullTerminated(memory, buf, n, items).ret
         = [hi |-> Len(items), lo |-> Len(bytes)]
    /\ Len(bytes) > n => memory' = memory /\ pc'[r] # "trapped"
    /\ Len(bytes) <= n /\ buf + Len(bytes) <= MemSize =>
         /\ pc'[r] # "trapped"
         /\ \A a \in DOMAIN memory :
              memory'[a] = IF a >= buf /\ a < buf + Len(bytes)
                             THEN bytes[a - buf + 1] ELSE memory[a]

\* C16: get_header_names and get_header_values return (count << 32) |
\* byte_count, byte_count being the items' lengths plus one each; they write
\* nothing when byte_count > buf_limit and otherwise write the items back to
\* back at buf, a zero byte after each, and nothing outside
\* [buf, buf + byte_count).
C16_NullTerminatedLists ==
  [][calls' = calls + 1 /\ "get_header_names" \in load.uses =>
     \A r \in Requests, k \in HeaderKind, buf \in BufOffsets, n \in BufLimits :
       /\ GetHeaderNames(r, k, buf, n) /\ ~HeadersMissing(r, k)
            => ReturnsList(r, HeaderNamesOf(HeadersFor(r, k)), buf, n)
       /\ \A name \in NameOffsets :
            GetHeaderValues(r, k, name, 1, buf, n) /\ ~HeadersMissing(r, k)
              /\ ~MustReadTraps(name, 1)
            => ReturnsList(r, HeaderValuesOf(HeadersFor(r, k),
                                ToLowerCase(MustRead(memory, name, 1))), buf, n)]_vars

\* The two names of the request's headers written at offset 1, the bytes
\* before and after them as they were.
C16_Witness ==
  \E r \in Requests :
    /\ pc[r] = "handle_request" /\ calls = 1
    /\ memory[1] = 104 /\ memory[2] = 0 /\ memory[3] = 105 /\ memory[4] = 0
    /\ memory[0] = InitialMemory[0] /\ memory[5] = InitialMemory[5]

\* C20: get_header_values and set_header_value called with name_len = 0 trap
\* the guest, for every header kind, and leave the request's and the
\* response's headers, the trailers and guest memory as they were.
C20_EmptyNameTraps ==
  [][calls' = calls + 1 /\ "get_header_values" \in load.uses =>
     \A r \in Requests, k \in HeaderKind, name \in NameOffsets :
       /\ \A buf \in BufOffsets, n \in BufLimits :
            GetHeaderValues(r, k, name, 0, buf, n) =>
              pc'[r] = "trapped" /\ UNCHANGED <<request, response, memory>>
       /\ \A value \in Offsets, vl \in NameLens :
            SetHeader(r, k, name, 0, value, vl) =>
              pc'[r] = "trapped" /\ UNCHANGED <<request, response, memory>>]_vars

\* A guest trapped by the empty name in handle_response, after it had set a
\* header in handle_request.
C20_Witness ==
  \E r \in Requests :
    /\ pc[r] = "trapped" /\ hist[r].trap = "name" /\ hist[r].respInvoked
    /\ response[r].headers # <<>> /\ memory = InitialMemory

\* What a call that returns the value v through writeIfUnderLimit into the
\* buffer of n bytes at buf has to do: return the length of v, write v at buf
\* when it is not empty and fits the limit (the buffer being inside memory),
\* and otherwise leave memory as it was.
WritesIfFits(r, v, buf, n) ==
  /\ WriteIfUnderLimit(memory, buf, n, v).ret = Len(v)
  /\ 0 < Len(v) /\ Len(v) <= n /\ buf + Len(v) <= MemSize =>
       /\ pc'[r] # "trapped"
       /\ \A a \in DOMAIN memory :
            memory'[a] = IF a >= buf /\ a < buf + Len(v) THEN v[a - buf + 1]
                         ELSE memory[a]
  /\ ~(0 < Len(v) /\ Len(v) <= n) => memory' = memory /\ pc'[r] # "trapped"

C21_TrapCompletesResponse ==
  \A r \in Requests :
    pc[r] = "trapped" /\ down[r].status \in {"idle", "finished"} =>
      Ended(response[r].wire)

\* C22: when the guest of a request trapped, the client has received no byte
\* the guest wrote with write_body, with and without BUFFER_RESPONSE: every
\* byte delivered is one the downstream handler wrote.
C22_TrapDeliversNoGuestBytes ==
  \A r \in Requests :
    pc[r] = "trapped" =>
      \A i \in 1..Len(Delivered(r)) :
        Delivered(r)[i] \in {DownChunk(k)[1] : k \in 0..(MaxDownWrites - 1)}

\* C23: the factory returns a request handler only for a guest that exports
\* memory, handle_request and handle_response and whose initialization did
\* not trap; for every other guest it fails and returns none.
C23_SetupFailsOnMissingExport ==
  phase = "serving" =>
    /\ {"memory", "handle_request", "handle_response"} \subseteq load.exports
    /\ ~load.initTraps

\* C24: the guest's entry point runs once per factory call, before
\* handle_request of any request: when the request handler is returned _start
\* has run if the guest exports it, otherwise _initialize if the guest exports
\* it, and otherwise nothing; a guest with no entry point is not a reason for
\* the setup to fail.
C24_InitRunsOnce ==
  /\ Len(started) <= 1
  /\ phase = "serving" =>
       started = (IF "_start" \in load.exports THEN <<"_start">>
                  ELSE IF "_initialize" \in load.exports THEN <<"_initialize">>
                  ELSE <<>>)
  /\ phase = "init" => started # <<>>
  /\ \A r \in Requests : pc[r] # "new" => phase = "serving"
  /\ load.exports \cap {"_start", "_initialize"} = {} /\ "memory" \in load.exports =>
       phase # "failed" /\ started = <<>>

\* A request answered by a guest whose only entry point is _initialize, which
\* ran once.
C24_Witness ==
  /\ phase = "serving" /\ started = <<"_initialize">>
  /\ "_start" \notin load.exports
  /\ \E r \in Requests : pc[r] = "done" /\ hist[r].respInvoked

\* C25: when the middleware's mask has BUFFER_REQUEST, a request enters
\* handle_request with the whole of the client's body attached as req.body,
\* and every read_body(REQUEST) in handle_request (before any write_body
\* replaced the body) returns at once the next bytes of that body.
C25_BodyAttachedBeforeGuest ==
  [][\A r \in Requests :
       Has(mwFeatures, BUFFER_REQUEST) =>
         /\ pc[r] # "handle_request" /\ pc'[r] = "handle_request" =>
              request'[r].defined /\ request'[r].body = request[r].raw
         /\ \A buf \in Offsets, n \in Limits :
              /\ ReadBody(r, REQUEST, buf, n) /\ pc[r] = "handle_request"
              /\ ~hist[r].written[REQUEST]
              /\ buf + Min(n, Len(request[r].raw) - ReadIndex(r, REQUEST)) <= MemSize
              => /\ pc'[r] = "handle_request"
                 /\ hist'[r].read[REQUEST] =
                      SubSeq(request[r].raw, 1,
                             Min(ReadIndex(r, REQUEST) + n, Len(request[r].raw)))]_vars

\* The longest body read whole by the first read_body of handle_request.
C25_Witness ==
  \E r \in Requests :
    /\ pc[r] = "handle_request" /\ calls = 1 /\ Has(mwFeatures, BUFFER_REQUEST)
    /\ Len(request[r].raw) = MaxBody /\ hist[r].read[REQUEST] = request[r].raw
    /\ hist[r].eof[REQUEST]

\* The bytes the downstream handler has sent with its first n writes.
RECURSIVE DownSent(_)
DownSent(n) == IF n = 0 THEN <<>> ELSE DownSent(n - 1) \o DownChunk(n - 1)

\* C26: whatever mask the guest enabled while it initialized, when it
\* proceeds and writes no body, the request finished and the downstream
\* handler finished, the client has received exactly the bytes the downstream
\* handler sent, and the downstream handler found exactly the request body the
\* client sent.
C26_TransparentWhenUntouched ==
  \A r \in Requests :
    /\ pc[r] = "done" /\ hist[r].lowBit = 1 /\ down[r].status = "finished"
    /\ hist[r].wrote = <<>> /\ \A k \in BodyKind : ~hist[r].replaced[k]
    => /\ Ended(response[r].wire)
       /\ Delivered(r) = DownSent(down[r].writes)
       /\ hist[r].seen = request[r].raw

\* The values of the first n trailers the downstream handler adds, in the
\* order it adds them.
AddedTrailers(n) == [i \in 1..n |-> 30 + (i - 1)]

\* C27: with a ResponseBuffer attached, the trailers the downstream handler
\* added are kept under their name in the order they were added and, once the
\* request and the downstream handler have finished, have been delivered to
\* the client unchanged, after the body.
C27_TrailersDelivered ==
  \A r \in Requests :
    response[r].buffered =>
      /\ response[r].trailers = AddedTrailers(down[r].trailers)
      /\ pc[r] = "done" /\ down[r].status = "finished" =>
           /\ Len(response[r].wire) = 3
           /\ response[r].wire[1][1] = "write"
           /\ response[r].wire[2] = <<"addTrailers", AddedTrailers(down[r].trailers)>>
           /\ response[r].wire[3][1] = "end"

\* A byte sequence is the UTF-8 encoding of a string (of code points below
\* 2048: sequences of one and two bytes).
RECURSIVE ValidUtf8(_)
ValidUtf8(b) ==
  \/ b = <<>>
  \/ b[1] < 128 /\ ValidUtf8(Tail(b))
  \/ /\ b[1] >= 194 /\ b[1] <= 223 /\ Len(b) >= 2 /\ b[2] >= 128 /\ b[2] <= 191
     /\ ValidUtf8(SubSeq(b, 3, Len(b)))

\* C28: after set_uri(u) returned, for u a UTF-8 string, the request's URL is
\* u: get_uri returns the URL's bytes, which are u, and a guest that then
\* proceeds hands the downstream handler a request whose URL is the request's
\* URL at that time; set_uri with len = 0 sets the empty URL.
C28_SetUriThenGetUri ==
  [][\A r \in Requests :
       /\ hist'[r].uriSet /\ ValidUtf8(hist'[r].setUri) =>
            BufferFrom(request'[r].url) = hist'[r].setUri
       /\ pc[r] = "handle_request" /\ pc'[r] = "next" =>
            hist'[r].seenUrl = request[r].url
       /\ \A buf \in BufOffsets, n \in BufLimits :
            GetUri(r, buf, n) => WritesIfFits(r, BufferFrom(request[r].url), buf, n)
       /\ \A uri \in UriOffsets, n \in UriLens :
            SetUri(r, uri, n) /\ ~MustReadTraps(uri, n) =>
              /\ pc'[r] = pc[r]
              /\ hist'[r].uriSet
              /\ hist'[r].setUri = [i \in 1..n |-> memory[uri + i - 1]]
              /\ n = 0 => request'[r].url = <<>>]_vars

\* The guest set the URI "é", read it back with get_uri as the same two
\* bytes and proceeded: the downstream handler found that URL.
C28_Witness ==
  \E r \in Requests :
    /\ pc[r] = "handle_response" /\ calls = 2
    /\ hist[r].setUri = <<195, 169>> /\ hist[r].seenUrl = <<233>>
    /\ memory[1] = 195 /\ memory[2] = 169

\* C29: log_enabled returns 0 for DEBUG and 1 for every other level;
\* log(level, buf, len), for len bytes at buf that are a UTF-8 string, writes
\* exactly those bytes as one line with the console method of the level for
\* DEBUG, INFO, WARN and ERROR, and writes nothing for NONE.
C29_LogLevels ==
  [][calls' = calls + 1 /\ "log" \in load.uses =>
     \A r \in Requests, level \in LogLevels :
       /\ LogEnabled(r, level) =>
            hist'[r].logEnabled = (IF level = DEBUG THEN 0 ELSE 1)
       /\ \A buf \in LogOffsets, n \in LogLens :
            LET bytes == [i \in 1..n |-> memory[buf + i - 1]] IN
              Log(r, level, buf, n) /\ ~MustReadTraps(buf, n) /\ ValidUtf8(bytes) =>
                /\ pc'[r] = pc[r]
                /\ level = DEBUG => console' = Append(console, <<"debug", bytes>>)
                /\ level = INFO => console' = Append(console, <<"info", bytes>>)
                /\ level = WARN => console' = Append(console, <<"warn", bytes>>)
                /\ level = ERROR => console' = Append(console, <<"error", bytes>>)
                /\ level = NONE => console' = console]_vars

\* The guest logged the two bytes of "é" at INFO and then asked whether
\* DEBUG is enabled.
C29_Witness ==
  \E r \in Requests :
    /\ InGuest(r) /\ calls = 2
    /\ console = << <<"info", <<195, 169>> >> >>
    /\ hist[r].logEnabled = 0

\* C30: read_body(RESPONSE, ...) called while no ResponseBuffer is attached to
\* the response traps the guest, writes nothing to guest memory and leaves
\* the response read cursor where it was.
C30_UnbufferedResponseReadTraps ==
  [][calls' = calls + 1 /\ RESPONSE \in load.kinds =>
     \A r \in Requests, buf \in Offsets, n \in Limits :
       ReadBody(r, RESPONSE, buf, n) /\ ~response[r].buffered =>
         /\ pc'[r] = "trapped"
         /\ memory' = memory
         /\ state'[r].responseBodyReadIndex = state[r].responseBodyReadIndex]_vars

\* A guest trapped in handle_response by its read of a response the
\* downstream handler had written to the wire.
C30_Witness ==
  \E r \in Requests :
    /\ pc[r] = "trapped" /\ hist[r].trap = "body" /\ hist[r].respInvoked
    /\ ~response[r].buffered /\ down[r].writes > 0
    /\ memory = InitialMemory /\ state[r].responseBodyReadIndex = 0

\* C31: write_body(REQUEST, ...) called during handle_response traps the guest
\* and leaves the request body as it was.
C31_RequestWriteAfterNextTraps ==
  [][calls' = calls + 1 /\ REQUEST \in load.kinds =>
     \A r \in Requests, off \in Offsets, n \in Limits :
       WriteBody(r, REQUEST, off, n) /\ pc[r] = "handle_response" =>
         pc'[r] = "trapped" /\ request'[r] = request[r]]_vars

\* C32: when the handler leaves the guest for the last time, it releases a
\* ResponseBuffer exactly when the mask in force for the request (the request's
\* own mask once the guest raised it, the middleware mask otherwise) has
\* BUFFER_RESPONSE, and exactly when a buffer was attached for the request.
C32_DecisionsUseRequestMask ==
  [][\A r \in Requests :
       pc[r] \in {"handle_request", "handle_response"} /\ pc'[r] = "done" =>
         LET released == \E x \in {response[r], ResEnd(response[r], <<>>)} :
                            response'[r] = Release(x)
         IN  /\ released <=> Has(RequestFeatures(r), BUFFER_RESPONSE)
             /\ released <=> response[r].buffered]_vars

\* C33: with a ResponseBuffer attached, a callback the downstream handler
\* passed to end, in any position, is stored and not called until the buffer
\* is released, and has been called once when the buffer has been released.
C33_EndCallbackAtRelease ==
  \A r \in Requests :
    response[r].buffered /\ down[r].cb =>
      IF Ended(response[r].wire)
      THEN response[r].cbCalls = 1
      ELSE response[r].cb /\ response[r].cbCalls = 0

\* C34: with a ResponseBuffer attached, sendStatus(status) of the downstream
\* handler sets the response's status code to status, puts nothing on the wire
\* and leaves the downstream handler free to go on: the response is not ended.
C34_SendStatusBuffered ==
  [][load.statuses # {} =>
     \A r \in Requests, status \in StatusCodes :
       DownSendStatus(r, status) /\ response[r].buffered =>
         /\ response'[r].statusCode = status
         /\ response'[r].wire = response[r].wire
         /\ response'[r].body = response[r].body
         /\ down'[r].status = down[r].status]_vars

\* The downstream handler has called sendStatus on a buffered response inside
\* next(): the status is set and nothing has reached the wire.
C34_Witness ==
  \E r \in Requests :
    /\ response[r].buffered /\ down[r].sent \in StatusCodes
    /\ response[r].statusCode = down[r].sent
    /\ down[r].status = "running" /\ response[r].wire = <<>>

\* C35: for every header kind, a get_header_values whose name equals, letter
\* case apart, the name of an entry of the kind's collection returns the
\* values of that entry (an entry whose value is the empty string apart).
C35_CaseInsensitiveLookup ==
  [][calls' = calls + 1 /\ "get_header_values" \in load.uses =>
     \A r \in Requests, k \in HeaderKind, name \in NameOffsets,
        buf \in BufOffsets, n \in BufLimits :
       GetHeaderValues(r, k, name, 1, buf, n) /\ ~HeadersMissing(r, k)
         /\ ~MustReadTraps(name, 1) =>
         \A i \in 1..Len(HeadersFor(r, k)) :
           LET e == HeadersFor(r, k)[i] IN
             /\ ToLowerCase(e.name) = ToLowerCase(MustReadString(memory, name, 1))
             /\ e.values # << <<>> >>
             => ReturnsList(r, e.values, buf, n)]_vars

\* C36: each of get_header_names, get_header_values, set_header_value,
\* read_body and write_body, called with a kind that is no value of its enum,
\* traps the guest and leaves the request, the response, the RequestState
\* and guest memory as they were.
C36_UnknownKindTraps ==
  [][calls' = calls + 1 /\ UnknownKinds \subseteq load.kinds =>
     \A r \in Requests, k \in UnknownKinds :
       LET trapped == pc'[r] = "trapped" /\ UNCHANGED <<request, response, state, memory>> IN
         /\ \A buf \in BufOffsets, n \in BufLimits :
              /\ GetHeaderNames(r, k, buf, n) => trapped
              /\ \A name \in NameOffsets, nl \in NameLens :
                   GetHeaderValues(r, k, name, nl, buf, n) => trapped
         /\ \A name \in NameOffsets, nl \in NameLens, value \in Offsets, vl \in NameLens :
              SetHeader(r, k, name, nl, value, vl) => trapped
         /\ \A buf \in Offsets, n \in Limits :
              /\ ReadBody(r, k, buf, n) => trapped
              /\ WriteBody(r, k, buf, n) => trapped]_vars

\* C37: a read_body that returns has copied m = min(buf_limit, length -
\* cursor) bytes of the body to buf, returns m in its low 32 bits, moves the
\* cursor forward by m, and sets bit 32 exactly when the cursor has reached
\* the length of the body.
C37_ReadBodyResult ==
  [][calls' = calls + 1 /\ "read_body" \in load.uses =>
     \A r \in Requests, k \in BodyKind, buf \in Offsets, n \in Limits :
       ReadBody(r, k, buf, n) /\ pc'[r] # "trapped" =>
         LET body == BodyFor(r, k)
             cursor == ReadIndex(r, k)
             m == Min(n, Len(body) - cursor)
             ret == ReadBodyReturn(ReadBodySlice(body, cursor, n))
         IN /\ ret.lo = m
            /\ \A i \in 1..m : memory'[buf + i - 1] = body[cursor + i]
            /\ ReadIndex(r, k)' = cursor + m
            /\ ret.hi = 1 <=> ReadIndex(r, k)' = Len(body)]_vars

\* C38: nextCalled is false while handle_request runs and true while
\* handle_response runs, so that a write_body(RESPONSE) that returns has gone
\* through res.write in handle_request, and in handle_response has assigned
\* the body of the ResponseBuffer and left the wire alone.
C38_NextCalledPerPhase ==
  [][\A r \in Requests :
       /\ pc'[r] = "handle_request" => ~state'[r].nextCalled
       /\ pc'[r] = "handle_response" => state'[r].nextCalled
       /\ calls' = calls + 1 /\ RESPONSE \in load.kinds =>
            \A off \in Offsets, n \in Limits :
              WriteBody(r, RESPONSE, off, n) /\ pc'[r] # "trapped" =>
                LET b == MustRead(memory, off, n) IN
                  /\ pc[r] = "handle_request" =>
                       response'[r] = ResWrite(response[r], b)
                  /\ pc[r] = "handle_response" =>
                       response'[r] =
                         [response[r] EXCEPT !.body =
                            WriteResponseBody(state[r].responseBodyReplaced, @, b)]]_vars

\* A guest that wrote to the response in handle_request and again in
\* handle_response, with a ResponseBuffer attached.
C38_Witness ==
  \E r \in Requests :
    /\ pc[r] = "handle_response" /\ state[r].nextCalled /\ response[r].buffered
    /\ hist[r].wrote # <<>> /\ hist[r].written[RESPONSE]
    /\ response[r].body # hist[r].wrote /\ response[r].wire = <<>>

\* C39: host functions work on the guest's current memory, also after the
\* guest grew it: a write_body of bytes inside the guest's memory returns and
\* passes on the bytes the guest stored there, and a read_body into a buffer
\* inside the guest's memory returns and leaves the bytes of the body there.
C39_HostUsesCurrentMemory ==
  [][calls' = calls + 1 /\ "memory.grow" \in load.uses =>
     \A r \in Requests, off \in Offsets, n \in Limits :
       /\ WriteBody(r, RESPONSE, off, n) /\ n > 0 /\ off + n < MemSize
            /\ pc[r] = "handle_request" =>
            /\ pc'[r] # "trapped"
            /\ response'[r] = ResWrite(response[r], MustRead(memory, off, n))
       /\ ReadBody(r, RESPONSE, off, n) /\ response[r].buffered
            /\ off + n <= MemSize =>
            /\ pc'[r] # "trapped"
            /\ LET res == ReadBodySlice(BodyFor(r, RESPONSE), ReadIndex(r, RESPONSE), n) IN
                 \A i \in 1..Len(res.slice) : memory'[off + i - 1] = res.slice[i]]_vars

\* C40: with a ResponseBuffer attached, once the request is done and the
\* downstream handler has finished (nothing more will happen to the
\* response), nothing is left in the buffer that was not passed on: the
\* client has received the whole buffered body, and the wire carries every
\* buffered trailer.
C40_NothingLeftInBuffer ==
  \A r \in Requests :
    response[r].buffered /\ pc[r] = "done" /\ down[r].status = "finished" =>
      /\ Delivered(r) = response[r].body
      /\ \E i \in 1..Len(response[r].wire) :
           response[r].wire[i] = <<"addTrailers", response[r].trailers>>

====
